---- MODULE Spec2Model ----
(***************************************************************************)
(* A model of PageWisePDF's processing engine (src/src/pdf_processor.py)   *)
(* and of the two GUI handlers that drive it (src/src/main.py).            *)
(*                                                                         *)
(* Specifications:                                                         *)
(*   Spec      one run of PDFProcessor.process(): rendering, batch         *)
(*             planning, the thread pool and its workers, cancellation,    *)
(*             the per-page store, consolidation, progress and status.     *)
(*   RateSpec  PDFProcessor.apply_api_call_interval called by several      *)
(*             workers, over a discrete clock.                             *)
(*   PlanSpec  the batch planning loop of process() as a pure function.    *)
(*   ClampSpec the page-range clamping of process(), any request and count.*)
(*   EndpointSpec  process_api_endpoint on any endpoint text.              *)
(*   SplitSpec one call of split_and_save_multi_page_response on any       *)
(*             response text.                                              *)
(*   LiveSpec  the run of Spec, or the calls of RateSpec, with the         *)
(*             scheduling the code relies on (weak fairness of each step). *)
(*                                                                         *)
(* Text is a sequence of tokens.  One token stands for one character of    *)
(* the response, except that one whole match of the page-header pattern    *)
(* (r'#+\s*Page\s+(\d+)') is the single token Hdr(n): positions, slices    *)
(* and line splits are then those of the code, taken over tokens.          *)
(***************************************************************************)
EXTENDS Integers, Sequences, FiniteSets, TLC

\* ------------------------------------------------------------- bounds
MaxPages == 3      \* pages of the PDF
MaxBatch == 2      \* largest pages_per_call
MaxConc  == 2      \* largest concurrent_calls
PlanMaxPages == 6  \* PlanSpec: most rendered pages
PlanMaxBatch == 7  \* PlanSpec: largest pages_per_call
RateThreads == 2   \* RateSpec: pool threads calling the rate limiter
RateBatches == 4   \* RateSpec: batches of the job, one rate-limited call each
MaxInterval == 2   \* RateSpec: largest api_call_interval, in clock ticks
MaxClock == 8      \* RateSpec: the clock stops here
ClampMaxPages == 4 \* ClampSpec: most pages of the PDF
EndpointMaxLen == 5 \* EndpointSpec: most pieces of an endpoint text
SplitMaxPages == 3 \* SplitSpec: most pages of a batch
SplitMaxLen == 5   \* SplitSpec: most tokens of a response

\* ------------------------------------------------------------- text
Hdr(n) == <<"H", n>>     \* one match of the page-header pattern, group(1) = n
Txt    == <<"x", 0>>     \* an ordinary character
NL     == <<"n", 0>>     \* '\n'
Hash   == <<"#", 0>>     \* a '#' that starts no page-header match
Sp     == <<" ", 0>>     \* a blank

IsHdr(t) == t[1] = "H"
IsSpace(t) == t[1] \in {"n", " "}

\* re.finditer(pattern, response): the (match.start(), int(match.group(1)))
\* pairs, in text order.
SplitPositions(response) ==
  LET idx == SelectSeq([i \in 1..Len(response) |-> i],
                       LAMBDA i : IsHdr(response[i]))
  IN [k \in 1..Len(idx) |-> <<idx[k], response[idx[k]][2]>>]

\* response.split('\n')
RECURSIVE SplitLines(_)
SplitLines(text) ==
  IF \A i \in 1..Len(text) : text[i] # NL
  THEN <<text>>
  ELSE LET i == CHOOSE j \in 1..Len(text) :
                  text[j] = NL /\ \A k \in 1..(j-1) : text[k] # NL
       IN <<SubSeq(text, 1, i-1)>> \o SplitLines(SubSeq(text, i+1, Len(text)))

\* '\n'.join(lines)
RECURSIVE JoinLines(_)
JoinLines(lines) ==
  IF Len(lines) = 0 THEN <<>>
  ELSE IF Len(lines) = 1 THEN lines[1]
  ELSE lines[1] \o <<NL>> \o JoinLines(Tail(lines))

\* page_content.strip().startswith('#')
RECURSIVE LStrip(_)
LStrip(text) ==
  IF Len(text) > 0 /\ IsSpace(text[1]) THEN LStrip(Tail(text)) ELSE text

StartsWithHash(text) ==
  LET s == LStrip(text) IN Len(s) > 0 /\ s[1][1] \in {"#", "H"}

\* f"# Page {page_num}\n\n"
SynthHeader(page_num) == <<Hdr(page_num), NL, NL>>

\* Mutant: the last block ends like the others, the remaining lines are lost.
FallbackWritesEven(response, page_nums) ==
  LET lines == SplitLines(response)
      n == Len(page_nums)
      lines_per_page == Len(lines) \div n
      Content(i) ==
        JoinLines(SubSeq(lines, (i-1) * lines_per_page + 1, i * lines_per_page))
  IN [i \in 1..n |->
        <<page_nums[i],
          IF StartsWithHash(Content(i)) THEN Content(i)
          ELSE SynthHeader(page_nums[i]) \o Content(i)>>]

\* The heuristic branch of split_and_save_multi_page_response: the writes
\* <<page, content>> it makes, in order.
FallbackWrites(response, page_nums) ==
  LET lines == SplitLines(response)
      n == Len(page_nums)
      lines_per_page == Len(lines) \div n
      Content(i) ==    \* i is 1-based here, enumerate's index is i-1
        LET start_line == (i-1) * lines_per_page
            end_line == IF i < n THEN i * lines_per_page ELSE Len(lines)
        IN JoinLines(SubSeq(lines, start_line + 1, end_line))
  IN [i \in 1..n |->
        <<page_nums[i],
          IF StartsWithHash(Content(i)) THEN Content(i)
          ELSE SynthHeader(page_nums[i]) \o Content(i)>>]

\* Mutant: every segment runs to the end of the text.
HeaderWritesToEnd(response) ==
  LET sp == SplitPositions(response)
  IN [i \in 1..Len(sp) |-> <<sp[i][2], SubSeq(response, sp[i][1], Len(response))>>]

\* The header branch: one write per match, keyed by the number in the match.
HeaderWrites(response) ==
  LET sp == SplitPositions(response)
  IN [i \in 1..Len(sp) |->
        LET next_pos == IF i < Len(sp) THEN sp[i+1][1] ELSE Len(response) + 1
        IN <<sp[i][2], SubSeq(response, sp[i][1], next_pos - 1)>>]

\* split_and_save_multi_page_response(response, page_nums), as its writes.
SplitWrites(response, page_nums) ==
  IF Len(SplitPositions(response)) = 0 /\ Len(page_nums) > 1
  THEN FallbackWrites(response, page_nums)
  ELSE HeaderWrites(response)

\* Line 387, logger.warning("No page headers found in response for pages
\* ...") of the heuristic branch: the entries the split logs.
SplitWarnings(response, page_nums) ==
  IF Len(SplitPositions(response)) = 0 /\ Len(page_nums) > 1
  THEN {<<"No page headers found", page_nums>>}
  ELSE {}

GroupWarnings(response, page_nums) ==
  IF Len(page_nums) = 1 THEN {} ELSE SplitWarnings(response, page_nums)

\* The writes of process_page_group after the API returned `response`.
GroupWrites(response, page_nums) ==
  IF Len(page_nums) = 1
  THEN << <<page_nums[1], response>> >>
  ELSE SplitWrites(response, page_nums)

\* ------------------------------------------------------------- file names
\* The digits of f"{page_num:04d}": image files are page_<digits>.png and
\* per-page results page_<digits>.md.
RECURSIVE Digits(_)
Digits(n) == IF n < 10 THEN <<n>> ELSE Digits(n \div 10) \o <<n % 10>>

RECURSIVE ZeroPad(_)
ZeroPad(ds) == IF Len(ds) < 4 THEN ZeroPad(<<0>> \o ds) ELSE ds

PageName(page_num) == ZeroPad(Digits(page_num))

\* int(os.path.basename(path).split('_')[1].split('.')[0])
RECURSIVE PageNumOf(_)
PageNumOf(name) ==
  IF Len(name) = 0 THEN 0
  ELSE 10 * PageNumOf(SubSeq(name, 1, Len(name) - 1)) + name[Len(name)]

\* ------------------------------------------------------------- pure steps
Min(a, b) == IF a < b THEN a ELSE b
Max(a, b) == IF a > b THEN a ELSE b

\* An optional argument: <<>> is None, <<n>> is the number n.
None == <<>>
Some(n) == <<n>>

\* process(), lines 112-119: the page range the run uses.
ClampStart(start, total) ==
  LET s == IF start = None THEN 1 ELSE start[1]
  IN Max(1, Min(s, total))

\* Mutant: the end is not raised to the start.
ClampEndNoFloor(start, end, total) ==
  LET e == IF end = None THEN total ELSE end[1]
  IN Min(e, total)

ClampEnd(start, end, total) ==
  LET e == IF end = None THEN total ELSE end[1]
  IN Max(ClampStart(start, total), Min(e, total))

\* Mutant: each slice runs one element too far, so that groups overlap.
RECURSIVE PlanFromOverlap(_, _, _)
PlanFromOverlap(paths, B, i) ==
  IF i >= Len(paths) THEN <<>>
  ELSE <<SubSeq(paths, i + 1, Min(i + B + 1, Len(paths)))>>
       \o PlanFromOverlap(paths, B, i + B)

\* process(), lines 147-150: for i in range(0, len(image_paths), B):
\* page_groups.append(image_paths[i:i+B]).  `i` is the 0-based loop index.
RECURSIVE PlanFrom(_, _, _)
PlanFrom(paths, B, i) ==
  IF i >= Len(paths) THEN <<>>
  ELSE <<SubSeq(paths, i + 1, Min(i + B, Len(paths)))>> \o PlanFrom(paths, B, i + B)

\* Mutant: the last, shorter group is dropped.
PageGroupsDropTail(paths, B) ==
  PlanFrom(SubSeq(paths, 1, (Len(paths) \div B) * B), B, 0)

\* Mutant: consecutive batches share a page.
PageGroupsOverlap(paths, B) == PlanFromOverlap(paths, B, 0)

PageGroups(paths, B) == PlanFrom(paths, B, 0)

\* Mutant: the dispatch phase is weighted 50, it reaches 100 by itself.
DispatchProgressHalf(completed_count, n) == 50 + (completed_count * 50) \div n

\* Mutant: the dispatch phase's progress restarts from 0.
DispatchProgressNoBase(completed_count, n) == (completed_count * 40) \div n

\* int((processed_count / n) * 50) and 50 + int(completed / n * 40).  The
\* float products equal the integer quotients for every n below 50.
RenderProgress(processed_count, n) == (processed_count * 50) \div n
DispatchProgress(completed_count, n) == 50 + (completed_count * 40) \div n

\* md_files.sort(key=page number): a stable insertion sort of the listing.
RECURSIVE InsertByPage(_, _)
InsertByPage(name, sorted) ==
  IF Len(sorted) = 0 THEN <<name>>
  ELSE IF PageNumOf(name) < PageNumOf(sorted[1])
       THEN <<name>> \o sorted
       ELSE <<sorted[1]>> \o InsertByPage(name, Tail(sorted))

\* Mutant: the listing is used in the order the files were created.
SortByPageNone(names) == names

RECURSIVE SortByPage(_)
SortByPage(names) ==
  IF Len(names) = 0 THEN <<>>
  ELSE InsertByPage(names[Len(names)], SortByPage(SubSeq(names, 1, Len(names) - 1)))

\* consolidate_markdown_files: the header block, then each file's content
\* followed by the separator "\n\n---\n\n", in the sorted order.  A page
\* entry carries the file it was read from.
DocHeader(start, end) == <<"header", start, end>>
DocSep == <<"sep">>
DocPage(name, content) == <<"page", name, content>>

RECURSIVE DocBody(_, _)
DocBody(names, store) ==
  IF Len(names) = 0 THEN <<>>
  ELSE <<DocPage(names[1], store[names[1]]), DocSep>> \o DocBody(Tail(names), store)

Consolidated(listing, store, start, end) ==
  <<DocHeader(start, end)>> \o DocBody(SortByPage(listing), store)

\* call_openai_api's successful results for a batch: with a header for each
\* page of the batch, with no header at all, and with every header one page
\* too high.
RECURSIVE Headed(_, _)
Headed(page_nums, shift) ==
  IF Len(page_nums) = 0 THEN <<>>
  ELSE <<Hdr(page_nums[1] + shift), Txt>> \o Headed(Tail(page_nums), shift)

ApiResponses(page_nums) ==
  { Headed(page_nums, 0),
    <<Txt, NL, Txt>>,
    Headed(page_nums, 1) }

\* ------------------------------------------------------------- state
\* ------------------------------------------------------------- endpoint
\* An endpoint is a sequence of pieces: "/" and "#" are those characters, any
\* other piece is a whole run of characters between them.  A suffix that
\* starts with '/' then ends the text exactly when its pieces end the sequence.
DefaultEndpoint ==
  <<"https:", "/", "/", "api.openai.com", "/", "v1", "/", "chat", "/", "completions">>

\* str.endswith
EndsWith(text, suffix) ==
  /\ Len(text) >= Len(suffix)
  /\ SubSeq(text, Len(text) - Len(suffix) + 1, Len(text)) = suffix

\* Mutant: the test for a trailing '/v1' is missing.
process_api_endpoint_no_v1(ep) ==
  IF ep = <<>>
  THEN DefaultEndpoint
  ELSE IF EndsWith(ep, <<"#">>)
  THEN SubSeq(ep, 1, Len(ep) - 1)
  ELSE IF EndsWith(ep, <<"/">>)
  THEN IF ~EndsWith(ep, <<"/", "chat", "/", "completions", "/">>)
       THEN ep \o <<"chat", "/", "completions">>
       ELSE ep
  ELSE IF ~EndsWith(ep, <<"/", "chat", "/", "completions">>)
  THEN ep \o <<"/", "v1", "/", "chat", "/", "completions">>
  ELSE ep

\* Mutant: the normal case appends without testing for '/chat/completions'.
process_api_endpoint_always_append(ep) ==
  IF ep = <<>>
  THEN DefaultEndpoint
  ELSE IF EndsWith(ep, <<"#">>)
  THEN SubSeq(ep, 1, Len(ep) - 1)
  ELSE IF EndsWith(ep, <<"/">>)
  THEN IF ~EndsWith(ep, <<"/", "chat", "/", "completions", "/">>)
       THEN ep \o <<"chat", "/", "completions">>
       ELSE ep
  ELSE IF ~EndsWith(ep, <<"/", "v1">>)
       THEN ep \o <<"/", "v1", "/", "chat", "/", "completions">>
       ELSE ep \o <<"/", "chat", "/", "completions">>

process_api_endpoint(ep) ==
  IF ep = <<>>
  THEN DefaultEndpoint
  ELSE IF EndsWith(ep, <<"#">>)
  THEN SubSeq(ep, 1, Len(ep) - 1)
  ELSE IF EndsWith(ep, <<"/">>)
  THEN IF ~EndsWith(ep, <<"/", "chat", "/", "completions", "/">>)
       THEN ep \o <<"chat", "/", "completions">>
       ELSE ep
  ELSE IF ~EndsWith(ep, <<"/", "chat", "/", "completions">>)
  THEN IF ~EndsWith(ep, <<"/", "v1">>)
       THEN ep \o <<"/", "v1", "/", "chat", "/", "completions">>
       ELSE ep \o <<"/", "chat", "/", "completions">>
  ELSE ep

\* ------------------------------------------------------------- state
VARIABLES
  total_pages,       \* len(reader.pages) of the PDF
  start_page,        \* self.start_page: None or a number; a number once clamped
  end_page,          \* self.end_page
  pages_per_call,    \* self.pages_per_call
  concurrent_calls,  \* self.concurrent_calls
  cancelled,         \* self.cancelled
  pc,                \* where process() is
  image_paths,       \* the rendered images' names, in render order
  page_groups,       \* the planned batches
  futures,           \* futures[i]: the state of batch i's future
  yielded,           \* the batches as_completed has handed to the loop
  completed,         \* the loop's counter
  queue,             \* the executor's work queue (batch indices)
  workers,           \* workers[w]: what pool thread w is doing (one entry per thread)
  md,                \* the per-page store md_dir: file name -> content
  md_listing,        \* the names in md_dir, in creation order
  doc,               \* the consolidated document (<<>>: not written)
  progress,          \* the values emitted on progress_update
  statuses,          \* the texts shown as status, in order
  api_calls,         \* batches that reached the API call (lines 263-266) so far
  fatal,             \* a fatal error was raised in process()
  cancel_at,         \* where process() was when cancel() was called
  finished_handled,  \* on_processing_finished has run
  responses,         \* responses[b]: the text the API returned for batch b
  log,               \* the error and warning entries logged, as <<text, pages>>
  \* the rate limiter (RateSpec)
  api_call_interval, \* self.api_call_interval, in clock ticks
  clock,             \* time.time(), in ticks
  last_api_call_time,\* self._last_api_call_time
  api_call_lock,     \* the holder of self._api_call_lock (0: free)
  rl,                \* rl[t]: where thread t is in apply_api_call_interval
  rate_calls,        \* calls of apply_api_call_interval begun so far
  stamps,            \* the <<thread, time>> of each write of line 302, in order
  \* single calls of the pure methods (ClampSpec, EndpointSpec, SplitSpec)
  unit_pc,           \* "idle", or the method under study: "endpoint" / "split"
                     \* when called, "endpoint_done" / "split_done" when returned
  endpoint,          \* the api_endpoint argument of __init__
  api_endpoint,      \* self.api_endpoint
  sp_response,       \* the response argument of split_and_save_multi_page_response
  sp_page_nums,      \* its page_nums argument
  sp_writes,         \* the <<page, content>> file writes it made, in order
  sp_md,             \* the per-page files it left, by page number
  requested          \* ClampSpec: the <<start_page, end_page>> process() was
                     \* entered with (<<>> where the clamping is not under study)

runVars == <<total_pages, start_page, end_page, pages_per_call, concurrent_calls,
             cancelled, pc, image_paths, page_groups, futures, yielded, completed,
             queue, workers, md, md_listing, doc, progress, statuses,
             api_calls, fatal, cancel_at, finished_handled, responses, log>>

rateVars == <<api_call_interval, clock, last_api_call_time, api_call_lock, rl,
              rate_calls, stamps>>

unitVars == <<unit_pc, endpoint, api_endpoint, sp_response, sp_page_nums,
              sp_writes, sp_md, requested>>

vars == <<runVars, rateVars, unitVars>>

Terminal == {"Completed", "Cancelled", "Failed"}

Idle == [pc |-> "idle", group |-> 0, todo |-> <<>>]

RequestedPages == {None} \cup {Some(n) : n \in 0..(MaxPages + 1)}

\* The rate limiter after PDFProcessor.__init__ (lines 46-48); time.time()
\* counts from the epoch and is positive.
RateFresh ==
  /\ clock = 1
  /\ last_api_call_time = 0
  /\ api_call_lock = 0
  /\ rl = [t \in 1..RateThreads |-> [pc |-> "idle", current_time |-> 0, wake |-> 0]]
  /\ rate_calls = 0
  /\ stamps = <<>>

\* The run's state after PDFProcessor.__init__ with an empty output
\* directory, the processing thread started.
RunFresh ==
  /\ cancelled = FALSE
  /\ pc = "start"
  /\ image_paths = <<>>
  /\ page_groups = <<>>
  /\ futures = <<>>
  /\ yielded = {}
  /\ completed = 0
  /\ queue = <<>>
  /\ workers = <<>>
  /\ md = [name \in {} |-> <<>>]
  /\ md_listing = <<>>
  /\ doc = <<>>
  /\ progress = <<>>
  /\ statuses = <<>>
  /\ api_calls = 0
  /\ fatal = FALSE
  /\ cancel_at = "never"
  /\ finished_handled = FALSE
  /\ responses = <<>>
  /\ log = {}

\* No pure method is under study: the processor was built with the default
\* endpoint and split_and_save_multi_page_response has not been called.
UnitFresh ==
  /\ unit_pc = "idle"
  /\ endpoint = <<>>
  /\ api_endpoint = process_api_endpoint(<<>>)
  /\ sp_response = <<>>
  /\ sp_page_nums = <<>>
  /\ sp_writes = <<>>
  /\ sp_md = [page \in {} |-> <<>>]
  /\ requested = <<>>

RunInit ==
  /\ total_pages = MaxPages
  /\ start_page \in RequestedPages
  /\ end_page \in RequestedPages
  /\ pages_per_call \in 1..MaxBatch
  /\ concurrent_calls \in 1..MaxConc
  /\ RunFresh
  /\ api_call_interval = 0
  /\ RateFresh
  /\ UnitFresh

\* ------------------------------------------------------------- process()
\* The except branch of process(), lines 185-187.
Fail ==
  /\ pc' = "Failed"
  /\ fatal' = TRUE
  /\ statuses' = Append(statuses, "Error occurred")
  /\ log' = log \cup {<<"Error", <<>> >>}

\* Lines 105-128: read the page count (PdfReader may raise), clamp the range.
ReadPageCount ==
  /\ pc = "start"
  /\ \/ /\ Fail
        /\ UNCHANGED <<start_page, end_page>>
     \/ /\ start_page' = Some(ClampStart(start_page, total_pages))
        /\ end_page' = Some(ClampEnd(start_page, end_page, total_pages))
        /\ statuses' = Append(statuses, "Converting PDF to images...")
        /\ pc' = "render"
        /\ UNCHANGED <<fatal, log>>
  /\ UNCHANGED responses
  /\ UNCHANGED <<rateVars, unitVars>>
  /\ UNCHANGED <<total_pages, pages_per_call, concurrent_calls, cancelled,
                 image_paths, page_groups, futures, yielded, completed, queue,
                 workers, md, md_listing, doc, progress, api_calls,
                 cancel_at, finished_handled>>

\* convert_pdf_to_images, lines 196-208: fitz.open may raise; the loop's head
\* ends the loop when every page is rendered or the run is cancelled.
RenderCheck ==
  /\ pc = "render"
  /\ \/ /\ image_paths = <<>>
        /\ Fail
     \/ /\ pc' = IF cancelled \/ start_page[1] + Len(image_paths) > end_page[1]
                 THEN "check1" ELSE "rendering"
        /\ UNCHANGED <<fatal, log, statuses>>
  /\ UNCHANGED responses
  /\ UNCHANGED <<rateVars, unitVars>>
  /\ UNCHANGED <<total_pages, start_page, end_page, pages_per_call,
                 concurrent_calls, cancelled, image_paths, page_groups, futures,
                 yielded, completed, queue, workers, md, md_listing, doc,
                 progress, api_calls, cancel_at, finished_handled>>

\* Mutant: a failed render is not re-raised, the pages rendered so far go on.
RenderPageSwallow ==
  /\ pc = "rendering"
  /\ \/ /\ fatal' = TRUE
        /\ pc' = "check1"
        /\ UNCHANGED <<image_paths, progress, log>>
     \/ /\ image_paths' = Append(image_paths, PageName(start_page[1] + Len(image_paths)))
        /\ progress' = Append(progress,
              RenderProgress(Len(image_paths) + 1, end_page[1] - start_page[1] + 1))
        /\ pc' = "render"
        /\ UNCHANGED <<fatal, log>>
  /\ UNCHANGED <<total_pages, start_page, end_page, pages_per_call,
                 concurrent_calls, cancelled, page_groups, futures, yielded,
                 completed, queue, workers, md, md_listing, doc, statuses,
                 api_calls, cancel_at, finished_handled, responses>>
  /\ UNCHANGED <<rateVars, unitVars>>

\* Lines 211-230: render one page (get_pixmap or save may raise, which line
\* 237 re-raises), record its image and emit the progress.
RenderPage ==
  /\ pc = "rendering"
  /\ \/ /\ Fail
        /\ UNCHANGED <<image_paths, progress>>
     \/ /\ image_paths' = Append(image_paths, PageName(start_page[1] + Len(image_paths)))
        /\ progress' = Append(progress,
              RenderProgress(Len(image_paths) + 1, end_page[1] - start_page[1] + 1))
        /\ pc' = "render"
        /\ UNCHANGED <<fatal, log, statuses>>
  /\ UNCHANGED responses
  /\ UNCHANGED <<rateVars, unitVars>>
  /\ UNCHANGED <<total_pages, start_page, end_page, pages_per_call,
                 concurrent_calls, cancelled, page_groups, futures, yielded,
                 completed, queue, workers, md, md_listing, doc,
                 api_calls, cancel_at, finished_handled>>

\* Mutant: the check of line 132 is missing.
CheckAfterRenderNoCancel ==
  /\ pc = "check1"
  /\ statuses' = Append(statuses, "Processing images with OCR...")
  /\ page_groups' = PageGroups(image_paths, pages_per_call)
  /\ pc' = IF page_groups' = <<>> THEN "check2" ELSE "submit"
  /\ UNCHANGED <<total_pages, start_page, end_page, pages_per_call,
                 concurrent_calls, cancelled, image_paths, futures, yielded,
                 completed, queue, workers, md, md_listing, doc,
                 progress, api_calls, fatal, log, cancel_at, finished_handled, responses>>
  /\ UNCHANGED <<rateVars, unitVars>>

\* Lines 132-153: the check after rendering, then the batch planning and the
\* creation of the executor.
CheckAfterRender ==
  /\ pc = "check1"
  /\ IF cancelled
     THEN /\ pc' = "Cancelled"
          /\ UNCHANGED <<page_groups, statuses>>
     ELSE /\ statuses' = Append(statuses, "Processing images with OCR...")
          /\ page_groups' = PageGroups(image_paths, pages_per_call)
          /\ pc' = IF page_groups' = <<>> THEN "check2" ELSE "submit"
  /\ UNCHANGED responses
  /\ UNCHANGED <<rateVars, unitVars>>
  /\ UNCHANGED <<total_pages, start_page, end_page, pages_per_call,
                 concurrent_calls, cancelled, image_paths, futures, yielded,
                 completed, queue, workers, md, md_listing, doc,
                 progress, api_calls, fatal, log, cancel_at, finished_handled>>

\* Mutant: one pool thread per batch.
MaxWorkersPerBatch == Len(page_groups)

\* ThreadPoolExecutor(max_workers=self.concurrent_calls): the pool's size.
MaxWorkers == concurrent_calls

\* Line 154, one executor.submit: the batch is queued and the pool spawns a
\* thread while it has fewer than max_workers.
Submit ==
  /\ pc = "submit"
  /\ futures' = Append(futures, "pending")
  /\ responses' = Append(responses, <<>>)
  /\ queue' = Append(queue, Len(futures) + 1)
  /\ workers' = IF Len(workers) < MaxWorkers THEN Append(workers, Idle) ELSE workers
  /\ pc' = IF Len(futures) + 1 = Len(page_groups) THEN "wait" ELSE "submit"
  /\ UNCHANGED <<rateVars, unitVars>>
  /\ UNCHANGED <<total_pages, start_page, end_page, pages_per_call,
                 concurrent_calls, cancelled, image_paths, page_groups, yielded,
                 completed, md, md_listing, doc, progress, statuses,
                 api_calls, fatal, log, cancel_at, finished_handled>>

\* Mutant: future.result() is not wrapped in try/except, a batch's exception
\* reaches the except branch of process().
AsCompletedRaising(b) ==
  /\ pc = "wait"
  /\ b \in 1..Len(futures)
  /\ b \notin yielded
  /\ futures[b] \in {"ok", "error"}
  /\ yielded' = yielded \cup {b}
  /\ IF cancelled
     THEN /\ futures' = [i \in 1..Len(futures) |->
                           IF futures[i] = "pending" THEN "cancelled" ELSE futures[i]]
          /\ queue' = <<>>
          /\ pc' = "shutdown"
          /\ UNCHANGED <<completed, progress, fatal, log, statuses>>
     ELSE IF futures[b] = "error"
     THEN /\ Fail
          /\ UNCHANGED <<futures, queue, completed, progress>>
     ELSE /\ completed' = completed + 1
          /\ progress' = Append(progress, DispatchProgress(completed + 1, Len(page_groups)))
          /\ pc' = IF yielded' = 1..Len(futures) THEN "check2" ELSE "wait"
          /\ UNCHANGED <<futures, queue, fatal, log, statuses>>
  /\ UNCHANGED <<total_pages, start_page, end_page, pages_per_call,
                 concurrent_calls, cancelled, image_paths, page_groups, workers,
                 md, md_listing, doc, api_calls, cancel_at,
                 finished_handled, responses>>
  /\ UNCHANGED <<rateVars, unitVars>>

\* Lines 157-170, one turn of the as_completed loop for a finished batch b:
\* the cancellation check (with executor.shutdown(wait=False,
\* cancel_futures=True), which cancels every batch still queued), else the
\* result (an exception is logged and dropped), the counter and the progress.
AsCompleted(b) ==
  /\ pc = "wait"
  /\ b \in 1..Len(futures)
  /\ b \notin yielded
  /\ futures[b] \in {"ok", "error"}
  /\ yielded' = yielded \cup {b}
  /\ IF cancelled
     THEN /\ futures' = [i \in 1..Len(futures) |->
                           IF futures[i] = "pending" THEN "cancelled" ELSE futures[i]]
          /\ queue' = <<>>
          /\ pc' = "shutdown"
          /\ UNCHANGED <<completed, progress, log>>
     ELSE /\ log' = IF futures[b] = "error"
                    THEN log \cup {<<"Error processing page group", <<>> >>}
                    ELSE log
          /\ completed' = completed + 1
          /\ progress' = Append(progress, DispatchProgress(completed + 1, Len(page_groups)))
          /\ pc' = IF yielded' = 1..Len(futures) THEN "check2" ELSE "wait"
          /\ UNCHANGED <<futures, queue>>
  /\ UNCHANGED responses
  /\ UNCHANGED <<rateVars, unitVars>>
  /\ UNCHANGED <<total_pages, start_page, end_page, pages_per_call,
                 concurrent_calls, cancelled, image_paths, page_groups, workers,
                 md, md_listing, doc, statuses, api_calls, fatal, cancel_at,
                 finished_handled>>

\* Mutant: process() returns without joining the pool threads.
ShutdownNoWait ==
  /\ pc = "shutdown"
  /\ pc' = "Cancelled"
  /\ UNCHANGED <<total_pages, start_page, end_page, pages_per_call,
                 concurrent_calls, cancelled, image_paths, page_groups, futures,
                 yielded, completed, queue, workers, md, md_listing, doc,
                 progress, statuses, api_calls, fatal, log, cancel_at,
                 finished_handled, responses>>
  /\ UNCHANGED <<rateVars, unitVars>>

\* The return of line 161 leaves the with block: the executor's __exit__ is
\* shutdown(wait=True), which joins the pool threads.
ShutdownWait ==
  /\ pc = "shutdown"
  /\ \A w \in 1..Len(workers) : workers[w].pc = "idle"
  /\ pc' = "Cancelled"
  /\ UNCHANGED responses
  /\ UNCHANGED <<rateVars, unitVars>>
  /\ UNCHANGED <<total_pages, start_page, end_page, pages_per_call,
                 concurrent_calls, cancelled, image_paths, page_groups, futures,
                 yielded, completed, queue, workers, md, md_listing, doc,
                 progress, statuses, api_calls, fatal, log, cancel_at, finished_handled>>

\* Mutant: the check of line 173 is missing.
CheckBeforeConsolidateNoCancel ==
  /\ pc = "check2"
  /\ statuses' = Append(statuses, "Consolidating results...")
  /\ pc' = "consolidate"
  /\ UNCHANGED <<total_pages, start_page, end_page, pages_per_call,
                 concurrent_calls, cancelled, image_paths, page_groups, futures,
                 yielded, completed, queue, workers, md, md_listing, doc,
                 progress, api_calls, fatal, log, cancel_at, finished_handled,
                 responses>>
  /\ UNCHANGED <<rateVars, unitVars>>

\* Lines 173-175: the check before consolidation; a cancelled run falls
\* through to the end of process().
CheckBeforeConsolidate ==
  /\ pc = "check2"
  /\ IF cancelled
     THEN /\ pc' = "Cancelled"
          /\ UNCHANGED statuses
     ELSE /\ statuses' = Append(statuses, "Consolidating results...")
          /\ pc' = "consolidate"
  /\ UNCHANGED responses
  /\ UNCHANGED <<rateVars, unitVars>>
  /\ UNCHANGED <<total_pages, start_page, end_page, pages_per_call,
                 concurrent_calls, cancelled, image_paths, page_groups, futures,
                 yielded, completed, queue, workers, md, md_listing, doc,
                 progress, api_calls, fatal, log, cancel_at, finished_handled>>

\* Lines 177-183: write the consolidated document, emit 100 and the status.
Consolidate ==
  /\ pc = "consolidate"
  /\ doc' = Consolidated(md_listing, md, start_page[1], end_page[1])
  /\ progress' = Append(progress, 100)
  /\ statuses' = Append(statuses, "Processing completed")
  /\ pc' = "Completed"
  /\ UNCHANGED responses
  /\ UNCHANGED <<rateVars, unitVars>>
  /\ UNCHANGED <<total_pages, start_page, end_page, pages_per_call,
                 concurrent_calls, cancelled, image_paths, page_groups, futures,
                 yielded, completed, queue, workers, md, md_listing, api_calls,
                 fatal, log, cancel_at, finished_handled>>

\* ------------------------------------------------------------- main.py
\* MainWindow.cancel_processing: only while the processing thread runs, and
\* once (the button is disabled by the click).
Cancel ==
  /\ pc \notin Terminal
  /\ ~cancelled
  /\ cancelled' = TRUE
  /\ cancel_at' = pc
  /\ statuses' = Append(statuses, "Cancelling...")
  /\ UNCHANGED responses
  /\ UNCHANGED <<rateVars, unitVars>>
  /\ UNCHANGED <<total_pages, start_page, end_page, pages_per_call,
                 concurrent_calls, pc, image_paths, page_groups, futures, yielded,
                 completed, queue, workers, md, md_listing, doc, progress,
                 api_calls, fatal, log, finished_handled>>

\* MainWindow.on_processing_finished, run when the thread has finished.
OnProcessingFinished ==
  /\ pc \in Terminal
  /\ ~finished_handled
  /\ finished_handled' = TRUE
  /\ statuses' = Append(statuses, IF cancelled THEN "Processing cancelled"
                                  ELSE "Processing completed")
  /\ UNCHANGED responses
  /\ UNCHANGED <<rateVars, unitVars>>
  /\ UNCHANGED <<total_pages, start_page, end_page, pages_per_call,
                 concurrent_calls, cancelled, pc, image_paths, page_groups,
                 futures, yielded, completed, queue, workers, md, md_listing, doc,
                 progress, api_calls, fatal, log, cancel_at>>

\* ------------------------------------------------------------- pool threads
PageNums(b) == [i \in 1..Len(page_groups[b]) |-> PageNumOf(page_groups[b][i])]

\* A pool thread takes the next queued batch and starts process_page_group.
\* The pool's threads are interchangeable: of the idle ones the first takes.
WorkerTake(w) ==
  /\ w \in 1..Len(workers)
  /\ workers[w].pc = "idle"
  /\ \A v \in 1..(w-1) : workers[v].pc # "idle"
  /\ queue # <<>>
  /\ workers' = [workers EXCEPT ![w] = [pc |-> "call", group |-> Head(queue), todo |-> <<>>]]
  /\ futures' = [futures EXCEPT ![Head(queue)] = "running"]
  /\ queue' = Tail(queue)
  /\ UNCHANGED responses
  /\ UNCHANGED <<rateVars, unitVars>>
  /\ UNCHANGED <<total_pages, start_page, end_page, pages_per_call,
                 concurrent_calls, cancelled, pc, image_paths, page_groups,
                 yielded, completed, md, md_listing, doc, progress, statuses,
                 api_calls, fatal, log, cancel_at, finished_handled>>

\* Mutant: a failed call leaves its future unfinished.
WorkerCallLost(w) ==
  /\ w \in 1..Len(workers)
  /\ workers[w].pc = "call"
  /\ LET b == workers[w].group IN
     \/ /\ workers' = [workers EXCEPT ![w] = Idle]
        /\ api_calls' = api_calls + 1
        /\ log' = log \cup {<<"Error processing page(s)", PageNums(b)>>}
        /\ UNCHANGED <<responses, futures>>
     \/ \E response \in ApiResponses(PageNums(b)) :
          /\ workers' = [workers EXCEPT ![w].pc = "write",
                                        ![w].todo = GroupWrites(response, PageNums(b))]
          /\ responses' = [responses EXCEPT ![b] = response]
          /\ api_calls' = api_calls + 1
          /\ log' = log \cup GroupWarnings(response, PageNums(b))
          /\ UNCHANGED futures
  /\ UNCHANGED <<rateVars, unitVars>>
  /\ UNCHANGED <<total_pages, start_page, end_page, pages_per_call,
                 concurrent_calls, cancelled, pc, image_paths, page_groups,
                 yielded, completed, queue, md, md_listing, doc, progress,
                 statuses, fatal, cancel_at, finished_handled>>

\* process_page_group, lines 254-284 up to the API's answer: the call (after
\* apply_api_call_interval, see RateSpec) raises on a status other than 200,
\* as does a failed read of an image before it, or returns the response text.
WorkerCall(w) ==
  /\ w \in 1..Len(workers)
  /\ workers[w].pc = "call"
  /\ LET b == workers[w].group IN
     \/ /\ workers' = [workers EXCEPT ![w] = Idle]
        /\ futures' = [futures EXCEPT ![b] = "error"]
        /\ api_calls' = api_calls + 1
        /\ log' = log \cup {<<"Error processing page(s)", PageNums(b)>>}
        /\ UNCHANGED responses
     \/ \E response \in ApiResponses(PageNums(b)) :
          /\ workers' = [workers EXCEPT ![w].pc = "write",
                                        ![w].todo = GroupWrites(response, PageNums(b))]
          /\ responses' = [responses EXCEPT ![b] = response]
          /\ api_calls' = api_calls + 1
          /\ log' = log \cup GroupWarnings(response, PageNums(b))
          /\ UNCHANGED futures
  /\ UNCHANGED <<rateVars, unitVars>>
  /\ UNCHANGED <<total_pages, start_page, end_page, pages_per_call,
                 concurrent_calls, cancelled, pc, image_paths, page_groups,
                 yielded, completed, queue, md, md_listing, doc, progress,
                 statuses, fatal, cancel_at, finished_handled>>

\* One open(output_path, 'w') ... f.write(content): the file is created or
\* overwritten.
StoreWrite(store, name, content) ==
  [n \in (DOMAIN store) \cup {name} |-> IF n = name THEN content ELSE store[n]]

\* The next file write of the batch (lines 272-274, 408-410 or 419-421);
\* after the last one process_page_group returns.
WorkerWrite(w) ==
  /\ w \in 1..Len(workers)
  /\ workers[w].pc = "write"
  /\ LET wr == Head(workers[w].todo)
         name == PageName(wr[1])
     IN /\ md' = StoreWrite(md, name, wr[2])
        /\ md_listing' = IF name \in DOMAIN md THEN md_listing
                         ELSE Append(md_listing, name)
  /\ IF Len(workers[w].todo) = 1
     THEN /\ workers' = [workers EXCEPT ![w] = Idle]
          /\ futures' = [futures EXCEPT ![workers[w].group] = "ok"]
     ELSE /\ workers' = [workers EXCEPT ![w].todo = Tail(workers[w].todo)]
          /\ UNCHANGED futures
  /\ UNCHANGED responses
  /\ UNCHANGED <<rateVars, unitVars>>
  /\ UNCHANGED <<total_pages, start_page, end_page, pages_per_call,
                 concurrent_calls, cancelled, pc, image_paths, page_groups,
                 yielded, completed, queue, doc, progress, statuses, api_calls,
                 fatal, log, cancel_at, finished_handled>>

\* ------------------------------------------------------------- Spec
Next ==
  \/ ReadPageCount
  \/ RenderCheck
  \/ RenderPage
  \/ CheckAfterRender
  \/ Submit
  \/ \E b \in 1..Len(futures) : AsCompleted(b)
  \/ ShutdownWait
  \/ CheckBeforeConsolidate
  \/ Consolidate
  \/ Cancel
  \/ OnProcessingFinished
  \/ \E w \in 1..Len(workers) : WorkerTake(w)
  \/ \E w \in 1..Len(workers) : WorkerCall(w)
  \/ \E w \in 1..Len(workers) : WorkerWrite(w)

Spec == RunInit /\ [][Next]_vars

\* ------------------------------------------------------------- RateSpec
\* apply_api_call_interval (lines 286-302), called by the pool threads; the
\* clock may advance between any two steps of any thread.
Tick ==
  /\ clock < MaxClock
  /\ clock' = clock + 1
  /\ UNCHANGED <<api_call_interval, last_api_call_time, api_call_lock, rl, rate_calls, stamps>>
  /\ UNCHANGED <<runVars, unitVars>>

\* Mutant: only a negative interval returns at once.
RateEnterStrict(t) ==
  /\ rl[t].pc = "idle"
  /\ rate_calls < RateBatches
  /\ rate_calls' = rate_calls + 1
  /\ rl' = IF api_call_interval < 0
           THEN rl
           ELSE [rl EXCEPT ![t].pc = "lock"]
  /\ UNCHANGED <<api_call_interval, clock, last_api_call_time, api_call_lock, stamps>>
  /\ UNCHANGED <<runVars, unitVars>>

\* Lines 288-289: no interval, no waiting; else go for the lock.
RateEnter(t) ==
  /\ rl[t].pc = "idle"
  /\ rate_calls < RateBatches
  /\ rate_calls' = rate_calls + 1
  /\ rl' = IF api_call_interval <= 0
           THEN rl
           ELSE [rl EXCEPT ![t].pc = "lock"]
  /\ UNCHANGED <<api_call_interval, clock, last_api_call_time, api_call_lock, stamps>>
  /\ UNCHANGED <<runVars, unitVars>>

\* Mutant: no mutual exclusion.
LockIgnored == TRUE

\* with self._api_call_lock: the lock is taken only when free.
LockFree == api_call_lock = 0

RateAcquire(t) ==
  /\ rl[t].pc = "lock"
  /\ LockFree
  /\ api_call_lock' = t
  /\ rl' = [rl EXCEPT ![t].pc = "read"]
  /\ UNCHANGED <<api_call_interval, clock, last_api_call_time, rate_calls, stamps>>
  /\ UNCHANGED <<runVars, unitVars>>

\* Line 293: current_time = time.time()
RateRead(t) ==
  /\ rl[t].pc = "read"
  /\ rl' = [rl EXCEPT ![t].pc = "decide", ![t].current_time = clock]
  /\ UNCHANGED <<api_call_interval, clock, last_api_call_time, api_call_lock, rate_calls, stamps>>
  /\ UNCHANGED <<runVars, unitVars>>

\* Lines 294-299: elapsed, the test and the sleep's length.
Elapsed(t) == rl[t].current_time - last_api_call_time

\* Mutant: the test self._last_api_call_time > 0 is missing.
MustSleepAlways(t) == Elapsed(t) < api_call_interval

MustSleep(t) == Elapsed(t) < api_call_interval /\ last_api_call_time > 0

\* Mutant: the sleep lasts half the missing time.
SleepTimeHalf(t) == (api_call_interval - Elapsed(t)) \div 2

SleepTime(t) == api_call_interval - Elapsed(t)

\* time.sleep(sleep_time) returns no earlier than sleep_time after its call.
RateDecide(t) ==
  /\ rl[t].pc = "decide"
  /\ rl' = IF MustSleep(t)
           THEN [rl EXCEPT ![t].pc = "sleep", ![t].wake = clock + SleepTime(t)]
           ELSE [rl EXCEPT ![t].pc = "stamp"]
  /\ UNCHANGED <<api_call_interval, clock, last_api_call_time, api_call_lock, rate_calls, stamps>>
  /\ UNCHANGED <<runVars, unitVars>>

RateWake(t) ==
  /\ rl[t].pc = "sleep"
  /\ clock >= rl[t].wake
  /\ rl' = [rl EXCEPT ![t].pc = "stamp"]
  /\ UNCHANGED <<api_call_interval, clock, last_api_call_time, api_call_lock, rate_calls, stamps>>
  /\ UNCHANGED <<runVars, unitVars>>

\* Mutant: the timestamp is the time read at line 293, before the sleep.
RateStampStart(t) ==
  /\ rl[t].pc = "stamp"
  /\ last_api_call_time' = rl[t].current_time
  /\ stamps' = Append(stamps, <<t, rl[t].current_time>>)
  /\ rl' = [rl EXCEPT ![t].pc = "release"]
  /\ UNCHANGED <<api_call_interval, clock, api_call_lock, rate_calls>>
  /\ UNCHANGED <<runVars, unitVars>>

\* Line 302: self._last_api_call_time = time.time()
RateStamp(t) ==
  /\ rl[t].pc = "stamp"
  /\ last_api_call_time' = clock
  /\ stamps' = Append(stamps, <<t, clock>>)
  /\ rl' = [rl EXCEPT ![t].pc = "release"]
  /\ UNCHANGED <<api_call_interval, clock, api_call_lock, rate_calls>>
  /\ UNCHANGED <<runVars, unitVars>>

\* The end of the with block: the lock is released and the call returns.
RateRelease(t) ==
  /\ rl[t].pc = "release"
  /\ api_call_lock' = 0
  /\ rl' = [rl EXCEPT ![t] = [pc |-> "idle", current_time |-> 0, wake |-> 0]]
  /\ UNCHANGED <<api_call_interval, clock, last_api_call_time, rate_calls, stamps>>
  /\ UNCHANGED <<runVars, unitVars>>

RateInit ==
  /\ api_call_interval \in 0..MaxInterval
  /\ RateFresh
  /\ total_pages = MaxPages
  /\ start_page = None
  /\ end_page = None
  /\ pages_per_call = 1
  /\ concurrent_calls = RateThreads
  /\ RunFresh
  /\ UnitFresh

RateNext ==
  \/ Tick
  \/ \E t \in 1..RateThreads : RateEnter(t)
  \/ \E t \in 1..RateThreads : RateAcquire(t)
  \/ \E t \in 1..RateThreads : RateRead(t)
  \/ \E t \in 1..RateThreads : RateDecide(t)
  \/ \E t \in 1..RateThreads : RateWake(t)
  \/ \E t \in 1..RateThreads : RateStamp(t)
  \/ \E t \in 1..RateThreads : RateRelease(t)

RateSpec == RateInit /\ [][RateNext]_vars

\* ------------------------------------------------------------- PlanSpec
\* process() at the check after rendering, every page of [s, s+P-1] rendered:
\* the planning step alone, over larger page counts and batch sizes.
PlanInit ==
  \E s \in 1..2, P \in 1..PlanMaxPages :
    /\ total_pages = s + P - 1
    /\ start_page = Some(s)
    /\ end_page = Some(s + P - 1)
    /\ pages_per_call \in 1..PlanMaxBatch
    /\ concurrent_calls = 1
    /\ cancelled = FALSE
    /\ pc = "check1"
    /\ image_paths = [i \in 1..P |-> PageName(s + i - 1)]
    /\ page_groups = <<>>
    /\ futures = <<>>
    /\ yielded = {}
    /\ completed = 0
    /\ queue = <<>>
    /\ workers = <<>>
    /\ md = [name \in {} |-> <<>>]
    /\ md_listing = <<>>
    /\ doc = <<>>
    /\ progress = [i \in 1..P |-> RenderProgress(i, P)]
    /\ statuses = <<"Converting PDF to images...">>
    /\ api_calls = 0
    /\ fatal = FALSE
    /\ cancel_at = "never"
    /\ finished_handled = FALSE
    /\ responses = <<>>
    /\ log = {}
    /\ api_call_interval = 0
    /\ RateFresh
    /\ UnitFresh

PlanSpec == PlanInit /\ [][CheckAfterRender]_vars

\* ------------------------------------------------------------- ClampSpec
\* process() called with any start_page and end_page on a PDF of any page
\* count: the step of lines 105-128 alone.
ClampRequests == {None} \cup {Some(n) : n \in (0 - 1)..(ClampMaxPages + 2)}

ClampInit ==
  /\ total_pages \in 1..ClampMaxPages
  /\ start_page \in ClampRequests
  /\ end_page \in ClampRequests
  /\ requested = <<start_page, end_page>>
  /\ pages_per_call = 1
  /\ concurrent_calls = 1
  /\ RunFresh
  /\ api_call_interval = 0
  /\ RateFresh
  /\ unit_pc = "idle"
  /\ endpoint = <<>>
  /\ api_endpoint = process_api_endpoint(<<>>)
  /\ sp_response = <<>>
  /\ sp_page_nums = <<>>
  /\ sp_writes = <<>>
  /\ sp_md = [page \in {} |-> <<>>]

ClampSpec == ClampInit /\ [][ReadPageCount]_vars

\* ------------------------------------------------------------- EndpointSpec
\* PDFProcessor.__init__ called with any endpoint text: line 35,
\* self.api_endpoint = self.process_api_endpoint(api_endpoint).
EndpointPieces == {"/", "#", "v1", "chat", "completions", "host"}

IsSeparator(piece) == piece \in {"/", "#"}

\* The texts of at most EndpointMaxLen pieces; two runs of characters are
\* never adjacent, they would be one run.
EndpointInputs ==
  {e \in UNION {[1..n -> EndpointPieces] : n \in 0..EndpointMaxLen} :
     \A i \in 1..(Len(e) - 1) : IsSeparator(e[i]) \/ IsSeparator(e[i+1])}

EndpointInit ==
  /\ unit_pc = "endpoint"
  /\ endpoint \in EndpointInputs
  /\ api_endpoint = <<>>
  /\ sp_response = <<>>
  /\ sp_page_nums = <<>>
  /\ sp_writes = <<>>
  /\ sp_md = [page \in {} |-> <<>>]
  /\ requested = <<>>
  /\ total_pages = MaxPages
  /\ start_page = None
  /\ end_page = None
  /\ pages_per_call = 1
  /\ concurrent_calls = 1
  /\ RunFresh
  /\ api_call_interval = 0
  /\ RateFresh

SetApiEndpoint ==
  /\ unit_pc = "endpoint"
  /\ api_endpoint' = process_api_endpoint(endpoint)
  /\ unit_pc' = "endpoint_done"
  /\ UNCHANGED <<endpoint, sp_response, sp_page_nums, sp_writes, sp_md, requested>>
  /\ UNCHANGED <<runVars, rateVars>>

EndpointSpec == EndpointInit /\ [][SetApiEndpoint]_vars

\* ------------------------------------------------------------- SplitSpec
\* One call of split_and_save_multi_page_response, on any response text of
\* at most SplitMaxLen tokens for a batch of 2..SplitMaxPages pages, with an
\* empty md directory.
SplitTokens == {Hdr(p) : p \in 1..SplitMaxPages} \cup {Txt, NL, Hash}

SplitInit ==
  /\ unit_pc = "split"
  /\ sp_response \in UNION {[1..n -> SplitTokens] : n \in 0..SplitMaxLen}
     \* '#+' takes every '#' that stands right before a header into the match
  /\ \A i \in 1..(Len(sp_response) - 1) :
       ~(sp_response[i] = Hash /\ IsHdr(sp_response[i+1]))
  /\ sp_page_nums \in {[i \in 1..n |-> i] : n \in 2..SplitMaxPages}
  /\ sp_writes = <<>>
  /\ sp_md = [page \in {} |-> <<>>]
  /\ requested = <<>>
  /\ endpoint = <<>>
  /\ api_endpoint = process_api_endpoint(<<>>)
  /\ total_pages = MaxPages
  /\ start_page = None
  /\ end_page = None
  /\ pages_per_call = 1
  /\ concurrent_calls = 1
  /\ RunFresh
  /\ api_call_interval = 0
  /\ RateFresh

\* Mutant: a file that exists is not overwritten.
RECURSIVE ApplyWritesKeepFirst(_, _)
ApplyWritesKeepFirst(store, writes) ==
  IF writes = <<>> THEN store
  ELSE ApplyWritesKeepFirst(
         IF PageName(writes[1][1]) \in DOMAIN store THEN store
         ELSE StoreWrite(store, PageName(writes[1][1]), writes[1][2]),
         Tail(writes))

\* The files left by a sequence of writes, each creating or overwriting
\* page_<page_num:04d>.md.
RECURSIVE ApplyWrites(_, _)
ApplyWrites(store, writes) ==
  IF writes = <<>> THEN store
  ELSE ApplyWrites(StoreWrite(store, PageName(writes[1][1]), writes[1][2]),
                   Tail(writes))

SplitAndSave ==
  /\ unit_pc = "split"
  /\ sp_writes' = SplitWrites(sp_response, sp_page_nums)
  /\ sp_md' = ApplyWrites(sp_md, sp_writes')
  /\ unit_pc' = "split_done"
  /\ UNCHANGED <<endpoint, api_endpoint, sp_response, sp_page_nums, requested>>
  /\ UNCHANGED <<runVars, rateVars>>

SplitSpec == SplitInit /\ [][SplitAndSave]_vars

\* ------------------------------------------------------------- LiveSpec
\* The run of process(), or a job's calls of apply_api_call_interval, with
\* the scheduling the code relies on: every step of process(), of a pool
\* thread and of a thread inside the rate limiter that can be taken is
\* eventually taken (a render or an API call returns, a sleep ends, a free
\* lock is acquired); cancel() and the arrival of a new call are not forced.
LiveRateInit ==
  /\ api_call_interval \in 0..MaxInterval
  /\ RateFresh
  /\ total_pages = MaxPages
  /\ start_page = None
  /\ end_page = None
  /\ pages_per_call = 1
  /\ concurrent_calls = RateThreads
  /\ RunFresh
  /\ unit_pc = "rate"
  /\ endpoint = <<>>
  /\ api_endpoint = process_api_endpoint(<<>>)
  /\ sp_response = <<>>
  /\ sp_page_nums = <<>>
  /\ sp_writes = <<>>
  /\ sp_md = [page \in {} |-> <<>>]
  /\ requested = <<>>

LiveInit == RunInit \/ LiveRateInit

\* Past MaxClock time goes on while a sleeping thread waits for it.
SleepTick ==
  /\ clock >= MaxClock
  /\ \E t \in 1..RateThreads : rl[t].pc = "sleep" /\ rl[t].wake > clock
  /\ clock' = clock + 1
  /\ UNCHANGED <<api_call_interval, last_api_call_time, api_call_lock, rl, rate_calls, stamps>>
  /\ UNCHANGED <<runVars, unitVars>>

LiveNext ==
  \/ unit_pc = "idle" /\ Next
  \/ unit_pc = "rate" /\ (RateNext \/ SleepTick)

\* The return of line 177-183's step, as seen on pc: within LiveNext the
\* steps from "consolidate" to "Completed" are those of Consolidate, and one
\* is possible exactly when pc = "consolidate".
ConsolidateReturns == unit_pc = "idle" /\ pc = "consolidate" /\ pc' = "Completed"

LiveFairness ==
  /\ WF_vars(unit_pc = "idle" /\ ReadPageCount)
  /\ WF_vars(unit_pc = "idle" /\ RenderCheck)
  /\ WF_vars(unit_pc = "idle" /\ RenderPage)
  /\ WF_vars(unit_pc = "idle" /\ CheckAfterRender)
  /\ WF_vars(unit_pc = "idle" /\ Submit)
  /\ WF_vars(unit_pc = "idle" /\ \E b \in 1..Len(futures) : AsCompleted(b))
  /\ WF_vars(unit_pc = "idle" /\ ShutdownWait)
  /\ WF_vars(unit_pc = "idle" /\ CheckBeforeConsolidate)
  /\ WF_pc(ConsolidateReturns)
  /\ WF_vars(unit_pc = "idle" /\ \E w \in 1..Len(workers) : WorkerTake(w))
  /\ WF_vars(unit_pc = "idle" /\ \E w \in 1..Len(workers) : WorkerCall(w))
  /\ WF_vars(unit_pc = "idle" /\ \E w \in 1..Len(workers) : WorkerWrite(w))
  /\ WF_vars(unit_pc = "rate" /\ Tick)
  /\ WF_vars(unit_pc = "rate" /\ SleepTick)
  /\ \A t \in 1..RateThreads :
       /\ WF_vars(unit_pc = "rate" /\ RateAcquire(t))
       /\ WF_vars(unit_pc = "rate" /\ RateRead(t))
       /\ WF_vars(unit_pc = "rate" /\ RateDecide(t))
       /\ WF_vars(unit_pc = "rate" /\ RateWake(t))
       /\ WF_vars(unit_pc = "rate" /\ RateStamp(t))
       /\ WF_vars(unit_pc = "rate" /\ RateRelease(t))

LiveSpec == LiveInit /\ [][LiveNext]_vars /\ LiveFairness

\* ------------------------------------------------------------- claims
HeaderNums(response) ==
  {response[i][2] : i \in {j \in 1..Len(response) : IsHdr(response[j])}}

WrittenPages == {PageNumOf(name) : name \in DOMAIN md}

RequestedRange == start_page[1]..end_page[1]

BatchPages(b) == {PageNums(b)[i] : i \in 1..Len(page_groups[b])}

\* The OCR phase has ended, with no render failure, API failure or cancellation.
OcrEndedClean ==
  /\ pc \in {"check2", "consolidate", "Completed"}
  /\ ~cancelled
  /\ \A b \in 1..Len(futures) : futures[b] = "ok"

\* The response of a batch of several pages has no page header, or headers
\* for exactly the batch's pages.
HeadersMatchBatch(b) ==
  Len(page_groups[b]) > 1 => HeaderNums(responses[b]) \in {{}, BatchPages(b)}

\* C1 as stated: after a clean OCR phase the pages written are exactly the
\* requested range, whatever the responses were.
C1_Original == OcrEndedClean => WrittenPages = RequestedRange

\* C1, amended: after a clean OCR phase in which every response to a batch
\* of several pages has no page header or headers for exactly that batch's
\* pages, the pages written to the per-page store are exactly the requested
\* range.
C1_WrittenIsRange ==
  (OcrEndedClean /\ \A b \in 1..Len(futures) : HeadersMatchBatch(b))
    => WrittenPages = RequestedRange

C1_Witness ==
  /\ OcrEndedClean
  /\ \A b \in 1..Len(futures) : HeadersMatchBatch(b)
  /\ Len(page_groups) >= 2
  /\ \E b \in 1..Len(futures) :
       Len(page_groups[b]) > 1 /\ HeaderNums(responses[b]) = BatchPages(b)
  /\ \E b \in 1..Len(futures) :
       Len(page_groups[b]) = 1 /\ HeaderNums(responses[b]) # BatchPages(b)

\* C2 (RateSpec): with a positive interval, any two consecutive writes of
\* the shared timestamp, by whichever threads, are at least the interval
\* apart.
C2_Spacing ==
  api_call_interval > 0 =>
    \A k \in 1..(Len(stamps) - 1) :
      stamps[k+1][2] - stamps[k][2] >= api_call_interval

C2_Witness ==
  /\ api_call_interval >= 2
  /\ Len(stamps) >= 3
  /\ \E k \in 1..(Len(stamps) - 1) : stamps[k][1] # stamps[k+1][1]
  /\ \E k \in 1..(Len(stamps) - 1) : stamps[k+1][2] - stamps[k][2] = api_call_interval

RECURSIVE Concat(_)
Concat(groups) ==
  IF Len(groups) = 0 THEN <<>> ELSE groups[1] \o Concat(Tail(groups))

\* C3 (PlanSpec): the planned batches are ceil(P/B) non-empty groups whose
\* concatenation is the rendered sequence; all have B pages except the last,
\* which has P mod B (B when that is 0).
C3_BatchPlan ==
  pc = "submit" =>
    LET P == Len(image_paths)
        B == pages_per_call
        G == page_groups
    IN /\ Len(G) = (P + B - 1) \div B
       /\ Concat(G) = image_paths
       /\ \A k \in 1..Len(G) : Len(G[k]) >= 1
       /\ \A k \in 1..(Len(G) - 1) : Len(G[k]) = B
       /\ Len(G[Len(G)]) = IF P % B = 0 THEN B ELSE P % B

C3_Witness ==
  /\ pc = "submit"
  /\ Len(page_groups) >= 3
  /\ Len(image_paths) % pages_per_call # 0
  /\ pages_per_call >= 2

DocPageIdx == {i \in 1..Len(doc) : doc[i][1] = "page"}

\* C4: the consolidated document holds every stored page once, in strictly
\* ascending page-number order, each with its stored content and followed by
\* the separator, so that exactly one separator stands between two
\* consecutive pages.
C4_ConsolidatedOrder ==
  doc # <<>> =>
    /\ \A i, j \in DocPageIdx :
         i < j => PageNumOf(doc[i][2]) < PageNumOf(doc[j][2])
    /\ \A i \in DocPageIdx : i < Len(doc) /\ doc[i+1] = DocSep
    /\ \A i \in 2..Len(doc) : doc[i] = DocSep => (i - 1) \in DocPageIdx
    /\ {doc[i][2] : i \in DocPageIdx} = DOMAIN md
    /\ \A i \in DocPageIdx : doc[i][3] = md[doc[i][2]]

C4_Witness ==
  /\ doc # <<>>
  /\ Len(md_listing) >= 3
  /\ md_listing # SortByPage(md_listing)

PreDispatch == {"start", "render", "rendering", "check1"}

\* C5 as stated: a run cancelled before dispatch ends Cancelled, with no
\* batch submitted, no API call and nothing written.
C5_Original ==
  (cancel_at \in PreDispatch /\ pc \in Terminal) =>
    /\ pc = "Cancelled"
    /\ futures = <<>>
    /\ api_calls = 0
    /\ DOMAIN md = {}

\* C5, amended: a run cancelled before dispatch never submits a batch, calls
\* the API or writes a page result, and it ends Cancelled unless a fatal
\* error is raised before the flag is seen, in which case it ends Failed.
C5_CancelBeforeDispatch ==
  cancel_at \in PreDispatch =>
    /\ futures = <<>>
    /\ api_calls = 0
    /\ DOMAIN md = {}
    /\ pc \in PreDispatch \cup {"Cancelled", "Failed"}
    /\ (pc \in Terminal /\ ~fatal) => pc = "Cancelled"

C5_Witness ==
  /\ cancel_at = "rendering"
  /\ pc = "Cancelled"
  /\ Len(image_paths) >= 1

SomeError == \E b \in 1..Len(futures) : futures[b] = "error"

\* C6: a failed batch never moves the run to Failed and never cancels
\* another batch; a run that is not cancelled ends Completed, with the
\* document written and every batch finished, whichever batches failed.
C6_BatchFailureIsolated ==
  /\ SomeError => pc # "Failed"
  /\ (\E b \in 1..Len(futures) : futures[b] = "cancelled") => cancelled
  /\ (SomeError /\ ~cancelled /\ pc \in Terminal) =>
       /\ pc = "Completed"
       /\ doc # <<>>
       /\ Len(futures) = Len(page_groups)
       /\ \A b \in 1..Len(futures) : futures[b] \in {"ok", "error"}

C6_Witness ==
  /\ pc = "Completed"
  /\ ~cancelled
  /\ SomeError
  /\ \E b \in 1..Len(futures) : futures[b] = "ok"
  /\ futures[1] = "error"

\* C7: once a fatal error was raised while reading the page count or
\* rendering, the run is Failed, no batch was planned or submitted, the
\* consolidation never starts, no document is written and 100 is not
\* emitted.
C7_FatalAborts ==
  fatal =>
    /\ pc = "Failed"
    /\ page_groups = <<>>
    /\ futures = <<>>
    /\ doc = <<>>
    /\ \A i \in 1..Len(progress) : progress[i] # 100
    /\ \A i \in 1..Len(statuses) : statuses[i] # "Consolidating results..."

C7_Witness ==
  /\ fatal
  /\ Len(image_paths) >= 1
  /\ finished_handled

FinalStatuses ==
  SelectSeq(statuses, LAMBDA x : x \in {"Processing completed", "Error occurred",
                                        "Processing cancelled"})

\* C8 as stated: when the run is over and its end has been handled, exactly
\* one final status (Completed, Cancelled or Failed) has been reported.
C8_OneFinalStatus == finished_handled => Len(FinalStatuses) = 1

\* C9: the progress values emitted in a run never decrease and lie in
\* [0, 100].
C9_ProgressMonotone ==
  \A i \in 1..Len(progress) :
    /\ 0 <= progress[i]
    /\ progress[i] <= 100
    /\ i > 1 => progress[i-1] <= progress[i]

C9_Witness ==
  /\ pc = "Completed"
  /\ SomeError
  /\ Len(progress) >= 6
  /\ pages_per_call = 1

Running == {b \in 1..Len(futures) : futures[b] = "running"}

\* C10: never more batches in process than concurrent_calls.
C10_BoundedConcurrency == Cardinality(Running) <= concurrent_calls

C10_Witness ==
  /\ concurrent_calls >= 2
  /\ Cardinality(Running) = concurrent_calls
  /\ queue # <<>>

\* C11: for every requested start and end (absent, below 1, above the page
\* count, start above end) and every page count of at least 1, the range the
\* run uses after clamping satisfies 1 <= start <= end <= page count.
C11_ClampedRange ==
  pc = "render" =>
    /\ 1 <= start_page[1]
    /\ start_page[1] <= end_page[1]
    /\ end_page[1] <= total_pages

\* Clamped: a start above the page count with an end below 1.
C11_Witness ==
  /\ pc = "render"
  /\ requested[1] # None /\ requested[1][1] > total_pages
  /\ requested[2] # None /\ requested[2][1] < 1
  /\ total_pages > 1

\* C12: process_api_endpoint follows the normalization rule for every input:
\* empty gives the default URL; a trailing '#' is removed and nothing else
\* changed; after a trailing '/' comes 'chat/completions' unless the input
\* ends with '/chat/completions/'; any other input is returned unchanged when
\* it ends with '/chat/completions', gets '/chat/completions' when it ends
\* with '/v1', and '/v1/chat/completions' otherwise.
C12_EndpointRule ==
  unit_pc = "endpoint_done" =>
    LET e == endpoint
        r == api_endpoint
        last == e[Len(e)]
        chat == <<"chat", "/", "completions">>
    IN /\ e = <<>> => r = DefaultEndpoint
       /\ e # <<>> /\ last = "#" => r \o <<"#">> = e
       /\ e # <<>> /\ last = "/" /\ EndsWith(e, <<"/">> \o chat \o <<"/">>) => r = e
       /\ e # <<>> /\ last = "/" /\ ~EndsWith(e, <<"/">> \o chat \o <<"/">>) =>
            r = e \o chat
       /\ e # <<>> /\ last \notin {"#", "/"} /\ EndsWith(e, <<"/">> \o chat) => r = e
       /\ e # <<>> /\ last \notin {"#", "/"} /\ ~EndsWith(e, <<"/">> \o chat)
            /\ EndsWith(e, <<"/", "v1">>) => r = e \o <<"/">> \o chat
       /\ e # <<>> /\ last \notin {"#", "/"} /\ ~EndsWith(e, <<"/">> \o chat)
            /\ ~EndsWith(e, <<"/", "v1">>) => r = e \o <<"/", "v1", "/">> \o chat

\* A base URL ending with '/v1' got '/chat/completions' only.
C12_Witness ==
  /\ unit_pc = "endpoint_done"
  /\ endpoint = <<"host", "/", "v1">>
  /\ api_endpoint = <<"host", "/", "v1", "/", "chat", "/", "completions">>

\* The pages of the batch handed to the splitter, and the header numbers of
\* the response in text order.
SpPages == {sp_page_nums[i] : i \in 1..Len(sp_page_nums)}

SpHeaders ==
  LET sp == SplitPositions(sp_response) IN [k \in 1..Len(sp) |-> sp[k][2]]

\* The response is made of blocks, each beginning with a page header, one
\* block for each page of the batch.
SpWellFormed ==
  /\ Len(sp_response) > 0
  /\ IsHdr(sp_response[1])
  /\ Len(SpHeaders) = Len(sp_page_nums)
  /\ {SpHeaders[k] : k \in 1..Len(SpHeaders)} = SpPages

\* C13: when the response consists of per-page blocks each beginning with a
\* page header, one block per page of the batch, the split leaves exactly one
\* segment per page, stored under the page number of its header and equal to
\* its block: from its header's start up to the next header's start or the
\* end of the text.
C13_RoundTrip ==
  unit_pc = "split_done" /\ SpWellFormed =>
    /\ Len(sp_writes) = Len(sp_page_nums)
    /\ DOMAIN sp_md = {PageName(p) : p \in SpPages}
    /\ \A p \in SpPages :
         \E i, j \in 1..Len(sp_response) :
           /\ i <= j
           /\ sp_response[i] = Hdr(p)
           /\ \A k \in (i+1)..j : ~IsHdr(sp_response[k])
           /\ j = Len(sp_response) \/ IsHdr(sp_response[j+1])
           /\ sp_md[PageName(p)] = SubSeq(sp_response, i, j)
    /\ Concat([k \in 1..Len(sp_writes) |-> sp_writes[k][2]]) = sp_response

\* Three blocks for the pages 1, 2, 3, given out of order, each stored under
\* its own number.
C13_Witness ==
  /\ unit_pc = "split_done"
  /\ sp_page_nums = <<1, 2, 3>>
  /\ sp_response = <<Hdr(2), Txt, Hdr(1), Hdr(3), NL>>
  /\ sp_md[PageName(1)] = <<Hdr(1)>>
  /\ sp_md[PageName(2)] = <<Hdr(2), Txt>>
  /\ sp_md[PageName(3)] = <<Hdr(3), NL>>

\* The block of lines behind the i-th write of a split that found no header:
\* the content without the synthesized header, if one was prepended.
SpBlock(i) ==
  LET content == sp_writes[i][2]
  IN IF Len(content) > 0 /\ IsHdr(content[1])
     THEN SubSeq(content, Len(SynthHeader(sp_writes[i][1])) + 1, Len(content))
     ELSE content

SpNoHeader == \A i \in 1..Len(sp_response) : ~IsHdr(sp_response[i])

\* C14: with no header match, n pages and a response of L lines, the split
\* writes n segments, for the pages p1..pn in order; the first n-1 blocks
\* have floor(L/n) lines each, the last one the remaining lines, and the
\* blocks put together in order are the response, line for line.
C14_FallbackBlocks ==
  unit_pc = "split_done" /\ SpNoHeader =>
    LET n == Len(sp_page_nums)
        L == Len(SplitLines(sp_response))
        q == L \div n
    IN /\ Len(sp_writes) = n
       /\ \A i \in 1..n : sp_writes[i][1] = sp_page_nums[i]
       /\ DOMAIN sp_md = {PageName(p) : p \in SpPages}
       /\ IF q = 0
          THEN /\ \A i \in 1..(n-1) : SpBlock(i) = <<>>
               /\ SpBlock(n) = sp_response
          ELSE /\ \A i \in 1..(n-1) : Len(SplitLines(SpBlock(i))) = q
               /\ Len(SplitLines(SpBlock(n))) = L - (n-1) * q
               /\ JoinLines([i \in 1..n |-> SpBlock(i)]) = sp_response

\* Three lines for two pages: one line for page 1, two for page 2.
C14_Witness ==
  /\ unit_pc = "split_done"
  /\ sp_page_nums = <<1, 2>>
  /\ sp_response = <<Txt, NL, Txt, NL, Txt>>
  /\ sp_writes = << <<1, SynthHeader(1) \o <<Txt>> >>,
                    <<2, SynthHeader(2) \o <<Txt, NL, Txt>> >> >>

\* C15: in the fallback every segment written is non-empty and begins with
\* the page header of the page it is assigned to.
C15_FallbackHeaded ==
  unit_pc = "split_done" /\ SpNoHeader =>
    \A i \in 1..Len(sp_writes) :
      /\ sp_writes[i][2] # <<>>
      /\ sp_writes[i][2][1] = Hdr(sp_page_nums[i])

\* The pages of the requested range that have no per-page file.
GapPages == RequestedRange \ WrittenPages

\* C16: when the consolidated document is written while a page of the
\* requested range has no per-page result, the document holds a warning or
\* the log holds an error or a warning entry.
C16_GapWarned ==
  pc = "Completed" /\ GapPages # {} =>
    \/ \E i \in 1..Len(doc) : doc[i][1] \notin {"header", "page", "sep"}
    \/ log # {}

\* C17 (RateSpec): with a positive interval I, the N calls of
\* apply_api_call_interval completed so far took at least (N-1)*I from the
\* first one's completion (its write of line 302) to the last one's.
C17_TotalTime ==
  api_call_interval > 0 /\ Len(stamps) > 0 =>
    stamps[Len(stamps)][2] - stamps[1][2] >= (Len(stamps) - 1) * api_call_interval

\* Three calls by two threads, in exactly twice the interval.
C17_Witness ==
  /\ api_call_interval > 0
  /\ Len(stamps) = 3
  /\ stamps[1][1] # stamps[2][1]
  /\ stamps[3][2] - stamps[1][2] = 2 * api_call_interval

\* C18 (RateSpec): with an interval of 0 no thread is ever inside
\* apply_api_call_interval waiting for the lock or sleeping: every call
\* returns in the step it is made, the lock is never taken.
C18_NeverBlocks ==
  api_call_interval = 0 =>
    /\ \A t \in 1..RateThreads : rl[t].pc = "idle"
    /\ api_call_lock = 0

\* Every call of the job made and returned with an interval of 0.
C18_Witness ==
  /\ api_call_interval = 0
  /\ rate_calls = RateBatches
  /\ \A t \in 1..RateThreads : rl[t].pc = "idle"

\* C19: once the cancel flag is set, no batch that has not begun begins: no
\* pool thread takes a queued batch and no further batch is submitted.
C19_NoStartAfterCancel ==
  [][cancelled =>
       /\ Len(futures') = Len(futures)
       /\ \A b \in 1..Len(futures) :
            futures[b] = "pending" => futures'[b] # "running"]_vars

\* The dispatch phase up to the check of line 173: submitting, waiting for
\* completions, about to make the last check.
Dispatching == {"submit", "wait", "check2"}

\* C20: a run whose cancel flag was set during dispatch, before the check of
\* line 173, does not consolidate: it ends Cancelled, writes no consolidated
\* document and emits neither the progress 100 nor a completed status.
C20_CancelInDispatch ==
  cancel_at \in Dispatching =>
    /\ pc \notin {"consolidate", "Completed", "Failed"}
    /\ doc = <<>>
    /\ \A i \in 1..Len(progress) : progress[i] # 100
    /\ \A i \in 1..Len(statuses) :
         statuses[i] \notin {"Consolidating results...", "Processing completed"}
    /\ finished_handled => statuses[Len(statuses)] = "Processing cancelled"

\* Cancelled after the last batch's completion was handled and before the
\* check of line 173: the run ended Cancelled with every batch done.
C20_Witness ==
  /\ cancel_at = "check2"
  /\ pc = "Cancelled"
  /\ finished_handled
  /\ Len(futures) > 1
  /\ \A b \in 1..Len(futures) : futures[b] = "ok"

\* C21: a batch that has started is never interrupted, it goes on to its
\* end (done or failed) and may write its pages after the cancellation was
\* observed; process() returns Cancelled only when no batch is in flight.
C21_InFlightFinish ==
  [][/\ \A b \in 1..Len(futures) :
          futures[b] = "running" => futures'[b] \in {"running", "ok", "error"}
     /\ pc' = "Cancelled" =>
          /\ \A w \in 1..Len(workers') : workers'[w].pc = "idle"
          /\ \A b \in 1..Len(futures') : futures'[b] # "running"]_vars

\* Cancellation observed in the as_completed loop: a queued batch was
\* cancelled, and a batch whose completion the loop never handled wrote its
\* pages before process() returned.
C21_Witness ==
  /\ pc = "Cancelled"
  /\ cancel_at = "wait"
  /\ \E b \in 1..Len(futures) : futures[b] = "cancelled"
  /\ \E b \in 1..Len(futures) :
       /\ b \notin yielded
       /\ futures[b] = "ok"
       /\ \A i \in 1..Len(PageNums(b)) : PageName(PageNums(b)[i]) \in DOMAIN md

\* The threads inside apply_api_call_interval that have not yet written the
\* timestamp, and the calls that have.
RateBeforeStamp ==
  {t \in 1..RateThreads : rl[t].pc \in {"lock", "read", "decide", "sleep", "stamp"}}

\* C22 as stated: for every interval >= 0 each call writes the timestamp
\* once, so the writes made are the calls begun less those still before
\* their write.
C22_Original == Len(stamps) = rate_calls - Cardinality(RateBeforeStamp)

\* C22, amended: with a positive interval each call writes the timestamp
\* exactly once, with the time read after any sleep (not before the time the
\* sleep was due to end, nor the time read when the call started); with an
\* interval of 0 the call returns without writing it.
C22_StampOnce ==
  /\ api_call_interval > 0 =>
       /\ Len(stamps) = rate_calls - Cardinality(RateBeforeStamp)
       /\ \A t \in 1..RateThreads :
            rl[t].pc = "release" =>
              /\ stamps[Len(stamps)] = <<t, last_api_call_time>>
              /\ last_api_call_time >= rl[t].current_time
              /\ last_api_call_time >= rl[t].wake
  /\ api_call_interval = 0 => stamps = <<>> /\ last_api_call_time = 0

\* A call that slept has written the timestamp, later than the time it read
\* when it started.
C22_Witness ==
  /\ api_call_interval > 0
  /\ Len(stamps) > 1
  /\ \E t \in 1..RateThreads :
       /\ rl[t].pc = "release"
       /\ rl[t].wake > rl[t].current_time
       /\ last_api_call_time >= rl[t].wake

\* C23: the progress values are, in order, one per rendered page, each in
\* 0..50 and 50 for the last page of the range; then one per batch whose
\* completion was handled, done or failed, the k-th being
\* 50 + floor(40 * k / batches), at most 90; then 100, only once the
\* consolidated document is written.
C23_ProgressValues ==
  LET rendered == Len(image_paths)
      handled == IF pc \in {"start", "render", "rendering", "check1", "Failed"}
                 THEN 0 ELSE completed
  IN /\ Len(progress) = rendered + handled + (IF pc = "Completed" THEN 1 ELSE 0)
     /\ \A i \in 1..rendered : progress[i] >= 0 /\ progress[i] <= 50
     /\ rendered > 0 /\ rendered = end_page[1] - start_page[1] + 1 =>
          progress[rendered] = 50
     /\ \A k \in 1..handled :
          /\ progress[rendered + k] = 50 + (40 * k) \div Len(page_groups)
          /\ progress[rendered + k] <= 90
     /\ pc \in {"wait", "check2", "consolidate", "Completed"} =>
          completed = Cardinality(yielded)
     /\ pc = "Completed" => progress[Len(progress)] = 100 /\ doc # <<>>
     /\ pc # "Completed" => \A i \in 1..Len(progress) : progress[i] # 100

\* A completed run of three batches, one of them failed: 63, 76, 90, 100.
C23_Witness ==
  /\ pc = "Completed"
  /\ Len(page_groups) = 3
  /\ \E b \in 1..Len(futures) : futures[b] = "error"
  /\ SubSeq(progress, Len(progress) - 3, Len(progress)) = <<63, 76, 90, 100>>

\* The page numbers batch b has written so far: the writes of its response
\* less those its pool thread has still to make.
WrittenBy(b) ==
  IF responses[b] = <<>> THEN {}
  ELSE LET writes == GroupWrites(responses[b], PageNums(b))
           left == {w \in 1..Len(workers) :
                      workers[w].group = b /\ workers[w].pc = "write"}
           todo == IF left = {} THEN 0
                   ELSE Len(workers[CHOOSE w \in left : TRUE].todo)
       IN {writes[i][1] : i \in 1..(Len(writes) - todo)}

\* C24 as stated: no page number is written by two different batches,
\* whatever the responses.
C24_Original ==
  \A b, c \in 1..Len(futures) : b # c => WrittenBy(b) \cap WrittenBy(c) = {}

\* C24, amended: when every response to a batch of several pages has no page
\* header or headers for exactly that batch's pages, no page number is
\* written by two different batches.
C24_DisjointWrites ==
  (\A b \in 1..Len(futures) : responses[b] # <<>> => HeadersMatchBatch(b))
    => \A b, c \in 1..Len(futures) : b # c => WrittenBy(b) \cap WrittenBy(c) = {}

\* Two batches with matching responses have written all their pages, with
\* two pool threads.
C24_Witness ==
  /\ Len(futures) = 2
  /\ Len(workers) = 2
  /\ \A b \in 1..Len(futures) : futures[b] = "ok" /\ HeadersMatchBatch(b)
  /\ WrittenBy(1) = BatchPages(1)
  /\ WrittenBy(2) = BatchPages(2)
  /\ Len(page_groups[1]) > 1

\* C25: after a split by headers, the file of every page number named by a
\* header holds the segment of the last header with that number: from that
\* header up to the next header of any number, or to the end of the text.
\* There is one file per number, so the segments of earlier headers with the
\* same number are in no file.
C25_LastMatchWins ==
  unit_pc = "split_done" /\ ~SpNoHeader =>
    /\ DOMAIN sp_md = {PageName(p) : p \in HeaderNums(sp_response)}
    /\ \A p \in HeaderNums(sp_response) :
         \E i, j \in 1..Len(sp_response) :
           /\ i <= j
           /\ sp_response[i] = Hdr(p)
           /\ \A k \in (i+1)..Len(sp_response) : sp_response[k] # Hdr(p)
           /\ \A k \in (i+1)..j : ~IsHdr(sp_response[k])
           /\ j = Len(sp_response) \/ IsHdr(sp_response[j+1])
           /\ sp_md[PageName(p)] = SubSeq(sp_response, i, j)

\* Two headers for page 1: the file holds the second one's segment.
C25_Witness ==
  /\ unit_pc = "split_done"
  /\ sp_response = <<Hdr(1), Txt, Hdr(2), Hdr(1), NL>>
  /\ Len(sp_writes) = 3
  /\ sp_md[PageName(1)] = <<Hdr(1), NL>>

\* C26 (RateSpec): the first call of a job to get the lock never sleeps,
\* however many threads race for it; a later call sleeps exactly when the
\* time it read is less than the interval after the previous call's
\* completion (its write of line 302).
C26_FirstNeverWaits ==
  \A t \in 1..RateThreads :
    /\ rl[t].pc = "sleep" =>
         /\ stamps # <<>>
         /\ rl[t].current_time - stamps[Len(stamps)][2] < api_call_interval
    /\ rl[t].pc = "stamp" /\ rl[t].wake = 0 =>
         \/ stamps = <<>>
         \/ rl[t].current_time - stamps[Len(stamps)][2] >= api_call_interval

\* The second call slept the whole interval, the third one comes late enough
\* and goes on without sleeping.
C26_Witness ==
  /\ Len(stamps) = 2
  /\ stamps[2][2] - stamps[1][2] = api_call_interval
  /\ \E t \in 1..RateThreads :
       /\ rl[t].pc = "stamp"
       /\ rl[t].wake = 0
       /\ rl[t].current_time - stamps[2][2] >= api_call_interval
  /\ \E t \in 1..RateThreads : rl[t].pc = "lock"

\* C27 (LiveSpec): process() eventually reaches Completed, Cancelled or
\* Failed, whenever cancel() is called or not; and a thread that entered
\* apply_api_call_interval eventually returns from it.
C27_Terminates ==
  /\ unit_pc = "idle" => <>(pc \in Terminal)
  /\ unit_pc = "rate" =>
       \A t \in 1..RateThreads : (rl[t].pc # "idle") ~> (rl[t].pc = "idle")

\* A run with two pool threads, cancelled while batches were awaited, one
\* batch failed: it ended.
C27_Witness ==
  /\ unit_pc = "idle"
  /\ pc \in Terminal
  /\ cancel_at = "wait"
  /\ Len(workers) > 1
  /\ \E b \in 1..Len(futures) : futures[b] = "error"
  /\ finished_handled

\* C28 (Spec): every page entry of the consolidated document of a completed
\* run carries a page number inside the run's clamped range.
C28_OnlyRangePages ==
  pc = "Completed" =>
    \A i \in DocPageIdx : PageNumOf(doc[i][2]) \in RequestedRange

\* C29 (SplitSpec): when the response holds a page header, the segments
\* written, put together in match order, are the whole response, the text
\* before the first header included.
C29_NothingLost ==
  unit_pc = "split_done" /\ ~SpNoHeader =>
    Concat([k \in 1..Len(sp_writes) |-> sp_writes[k][2]]) = sp_response

\* C30 (EndpointSpec): for an endpoint text that does not end with '#',
\* process_api_endpoint applied to its own result gives that result again,
\* and the result ends with '/chat/completions' or '/chat/completions/'.
C30_Idempotent ==
  unit_pc = "endpoint_done" /\ ~EndsWith(endpoint, <<"#">>) =>
    /\ process_api_endpoint(api_endpoint) = api_endpoint
    /\ \/ EndsWith(api_endpoint, <<"/", "chat", "/", "completions">>)
       \/ EndsWith(api_endpoint, <<"/", "chat", "/", "completions", "/">>)

\* A base URL with a trailing '/' got 'chat/completions', and the result is
\* left as it is by a second application; so is a text that ends with
\* '/chat/completions/'.
C30_Witness ==
  /\ unit_pc = "endpoint_done"
  /\ endpoint = <<"host", "/">>
  /\ api_endpoint = <<"host", "/", "chat", "/", "completions">>
  /\ process_api_endpoint(api_endpoint) = api_endpoint
  /\ process_api_endpoint(<<"host", "/", "chat", "/", "completions", "/">>)
       = <<"host", "/", "chat", "/", "completions", "/">>

====
